---- MODULE Spec2Model ----
(***************************************************************************)
(* Dataset catalog endpoints of airflow/api_connexion/endpoints/           *)
(* dataset_endpoint.py: delete_dataset, get_dataset, get_datasets and      *)
(* get_dataset_events over a store of dataset rows and dataset event rows. *)
(*                                                                         *)
(* Strings that the code inspects (uri, uri_pattern, the source_* fields)  *)
(* are sequences of one-character strings, so that ILIKE, truthiness and   *)
(* ordering are computed.  An optional parameter is a sequence of length 0 *)
(* (None) or 1 (the value).                                                *)
(*                                                                         *)
(* A handler is one step per SQL statement it issues; requests of          *)
(* different sessions and the writers outside this file interleave between *)
(* statements (each statement sees what is committed when it runs).        *)
(* pc[s] is the position of session s and sess[s] the locals of its        *)
(* request, which is the response once pc[s] = "done".                     *)
(***************************************************************************)
EXTENDS Integers, Sequences, FiniteSets

VARIABLES datasets, events, pc, sess

vars == <<datasets, events, pc, sess>>

\* ------------------------------------------------------------------ bounds

\* Largest limit a request carries (after check_limit).
MaxLimit == 3

\* Largest offset a request carries.
MaxOffset == 3

\* Length of the append-only event log.
MaxEvents == 3

\* ------------------------------------------------------------- characters

Min(a, b) == IF a < b THEN a ELSE b

\* Code point of each character used in the model's strings.
Ord(c) ==
    CASE c = "%" -> 37
      [] c = "1" -> 49
      [] c = "2" -> 50
      [] c = "D" -> 68
      [] c = "S" -> 83
      [] c = "_" -> 95
      [] c = "d" -> 100
      [] c = "s" -> 115
      [] c = "x" -> 120
      [] OTHER -> 0

\* Case folding done by ILIKE.
Lower(c) ==
    CASE c = "D" -> "d"
      [] c = "S" -> "s"
      [] OTHER -> c

\* SQL LIKE on lower-cased operands: % matches any run, _ any one character.
RECURSIVE Like(_, _)
Like(s, p) ==
    IF p = <<>> THEN s = <<>>
    ELSE IF Head(p) = "%"
         THEN Like(s, Tail(p)) \/ (s # <<>> /\ Like(Tail(s), p))
    ELSE IF s = <<>> THEN FALSE
    ELSE IF Head(p) = "_" THEN Like(Tail(s), Tail(p))
    ELSE Lower(Head(s)) = Lower(Head(p)) /\ Like(Tail(s), Tail(p))

\* DatasetModel.uri.ilike(f"%{uri_pattern}%")
ilike(uri, uri_pattern) == Like(uri, <<"%">> \o uri_pattern \o <<"%">>)

\* ---------------------------------------------------------------- options

None == <<>>

Some(v) == <<v>>

\* Python truthiness of an optional string: None and "" are falsy.
TruthyStr(o) == o # None /\ o[1] # <<>>

\* Python truthiness of an optional int: None and 0 are falsy.
TruthyInt(o) == o # None /\ o[1] # 0

\* --------------------------------------------------------------- the store

DatasetIds == {1, 2, 3}

\* The immutable columns of the dataset with surrogate key i.
DatasetUri(i) ==
    CASE i = 1 -> <<"d", "s", "1">>
      [] i = 2 -> <<"D", "S", "2">>
      [] OTHER -> <<"x">>

DatasetCreatedAt(i) == IF i = 3 THEN 0 ELSE 1

DatasetUpdatedAt(i) == IF i = 1 THEN 2 ELSE 1

DagRefs == {"dag1"}

TaskRefs == {"task1"}

DatasetRow(i, dags, tasks) ==
    [id |-> i, uri |-> DatasetUri(i),
     created_at |-> DatasetCreatedAt(i), updated_at |-> DatasetUpdatedAt(i),
     consuming_dags |-> dags, producing_tasks |-> tasks]

\* The i-th row of the dataset event log.
EventRow(i) ==
    [id |-> i,
     dataset_id |-> ((i - 1) % 2) + 1,
     source_dag_id |-> IF i <= 2 THEN <<"d">> ELSE <<"s">>,
     source_task_id |-> IF i % 3 = 0 THEN <<"x">> ELSE <<"s">>,
     source_run_id |-> IF i = 2 THEN <<"2">> ELSE <<"1">>,
     source_map_index |-> (i % 3) - 1,
     timestamp |-> 5 + ((i - 1) \div 2),
     created_dagruns |-> {}]

EventLog(n) == {EventRow(i) : i \in 1..n}

\* Every assignment of references to a set of dataset ids.
DatasetStores ==
    UNION {
      { {DatasetRow(i, d[i], t[i]) : i \in ids} :
          d \in [ids -> SUBSET DagRefs], t \in [ids -> SUBSET TaskRefs] }
      : ids \in SUBSET DatasetIds }

Sessions == {1, 2}

\* The session that issues list requests.
Reader == 1

NoSess == [op |-> "none"]

\* ------------------------------------------------------------- sort policy

\* order_by is a sequence of tokens: an optional run of "-" and a field name.
RECURSIVE lstrip(_)
lstrip(order_by) ==
    IF order_by # <<>> /\ Head(order_by) = "-" THEN lstrip(Tail(order_by))
    ELSE order_by

\* apply_sorting(query, order_by, {}, allowed_attrs): the field must be in the
\* allow-list; a leading "-" selects descending order.
apply_sorting(order_by, allowed_attrs) ==
    LET lstriped_orderby == lstrip(order_by)
    IN [ok |-> Len(lstriped_orderby) = 1 /\ lstriped_orderby[1] \in allowed_attrs,
        field |-> IF lstriped_orderby = <<>> THEN "" ELSE lstriped_orderby[1],
        desc |-> order_by[1] = "-"]

Codes(str) == [i \in 1..Len(str) |-> Ord(str[i])]

\* The value a row is ordered by, as a sequence of integers.
SortKey(row, field) ==
    CASE field = "id" -> <<row.id>>
      [] field = "uri" -> Codes(row.uri)
      [] field = "created_at" -> <<row.created_at>>
      [] field = "updated_at" -> <<row.updated_at>>
      [] field = "source_dag_id" -> Codes(row.source_dag_id)
      [] field = "source_task_id" -> Codes(row.source_task_id)
      [] field = "source_run_id" -> Codes(row.source_run_id)
      [] field = "source_map_index" -> <<row.source_map_index>>
      [] field = "timestamp" -> <<row.timestamp>>

LexLess(a, b) ==
    \E i \in 1..(Min(Len(a), Len(b)) + 1) :
        /\ \A j \in 1..(i - 1) : a[j] = b[j]
        /\ \/ i > Len(a) /\ i <= Len(b)
           \/ i <= Len(a) /\ i <= Len(b) /\ a[i] < b[i]

\* r1 must come before r2: its sort key is the smaller one in the requested
\* direction.  The ordering clause names the requested column and nothing
\* else (no tie-break key is passed at lines 109 and 152 and no second
\* order_by follows), so rows with equal keys are not ordered by it.
RowLess(r1, r2, sorting) ==
    LET k1 == SortKey(r1, sorting.field)
        k2 == SortKey(r2, sorting.field)
    IN IF sorting.desc THEN LexLess(k2, k1) ELSE LexLess(k1, k2)

\* query.order_by(...): the sequences a statement with that ordering clause
\* can yield; the database is free in the order of rows with equal keys, and
\* chooses anew each time a statement runs.
OrderBy(rows, sorting) ==
    {o \in [1..Cardinality(rows) -> rows] :
        /\ \A i, j \in 1..Cardinality(rows) : i # j => o[i] # o[j]
        /\ \A i, j \in 1..Cardinality(rows) :
               i < j => ~RowLess(o[j], o[i], sorting)}

\* ------------------------------------------------------------- pagination

RECURSIVE Drop(_, _)
Drop(s, n) == IF n = 0 \/ s = <<>> THEN s ELSE Drop(Tail(s), n - 1)

RECURSIVE Take(_, _)
Take(s, n) == IF n = 0 \/ s = <<>> THEN <<>> ELSE <<Head(s)>> \o Take(Tail(s), n - 1)

\* Mutant: the limit is applied before the offset.
limit_offset(rows, offset, limit) == Drop(Take(rows, limit), offset)

\* query.offset(offset).limit(limit)
offset_limit(rows, offset, limit) == Take(Drop(rows, offset), limit)

\* ---------------------------------------------------------------- queries

\* Mutant: the uri is matched as a LIKE pattern instead of by equality.
select_by_uri_like(ds, uri) == {d \in ds : Like(d.uri, uri)}

\* select(DatasetModel).where(DatasetModel.uri == uri): the rows it matches.
select_by_uri(ds, uri) == {d \in ds : d.uri = uri}

\* dataset.consuming_dags, loaded on access for the row with key id.
lazyload_consuming_dags(ds, id) ==
    UNION {d.consuming_dags : d \in {x \in ds : x.id = id}}

\* Mutant: the guard does not look at producing_tasks.
producing_tasks_unchecked(ds, id) == {}

\* dataset.producing_tasks, loaded on access for the row with key id.
lazyload_producing_tasks(ds, id) ==
    UNION {d.producing_tasks : d \in {x \in ds : x.id = id}}

\* Mutant: the delete is never flushed.
session_delete_unflushed(ds, id) == ds

\* Mutant: the delete is not restricted to the loaded row.
session_delete_all(ds, id) == {}

\* session.delete(dataset): the store once the DELETE for key id has run.
session_delete(ds, id) == {d \in ds : d.id # id}

\* dataset_schema.dump(dataset)
dataset_schema_dump(dataset) ==
    [id |-> dataset.id, uri |-> dataset.uri,
     created_at |-> dataset.created_at, updated_at |-> dataset.updated_at,
     consuming_dags |-> dataset.consuming_dags,
     producing_tasks |-> dataset.producing_tasks]

\* select(func.count(DatasetModel.id))
count_datasets(ds) == Cardinality(ds)

\* if uri_pattern: query.where(DatasetModel.uri.ilike(f"%{uri_pattern}%"))
where_uri_pattern(ds, uri_pattern) ==
    IF TruthyStr(uri_pattern) THEN {d \in ds : ilike(d.uri, uri_pattern[1])}
    ELSE ds

dataset_allowed_attrs == {"id", "uri", "created_at", "updated_at"}

event_allowed_attrs ==
    {"source_dag_id", "source_task_id", "source_run_id", "source_map_index",
     "timestamp"}

\* The row query of get_datasets: filter, order, offset, limit; the pages
\* it can return.
dataset_pages(ds, args) ==
    {offset_limit(o, args.offset, args.limit) :
        o \in OrderBy(where_uri_pattern(ds, args.uri_pattern),
                      apply_sorting(args.order_by, dataset_allowed_attrs))}

\* The columns of the dataset table a row query returns; the relationships
\* are filled in by the loads that follow.
dataset_columns(d) ==
    [id |-> d.id, uri |-> d.uri, created_at |-> d.created_at,
     updated_at |-> d.updated_at, consuming_dags |-> {},
     producing_tasks |-> {}]

\* subqueryload: the row query runs again as a subquery joined to the
\* reference table; a loaded row gets the references of the row with its key
\* in the page that run yields.
subqueryload(page, id) ==
    {page[i] : i \in {j \in 1..Len(page) : page[j].id = id}}

\* The five conditional where clauses of get_dataset_events; f holds the
\* optional parameters.
where_dataset_id(evs, f) ==
    IF TruthyInt(f.dataset_id)
    THEN {e \in evs : e.dataset_id = f.dataset_id[1]} ELSE evs

where_source_dag_id(evs, f) ==
    IF TruthyStr(f.source_dag_id)
    THEN {e \in evs : e.source_dag_id = f.source_dag_id[1]} ELSE evs

where_source_task_id(evs, f) ==
    IF TruthyStr(f.source_task_id)
    THEN {e \in evs : e.source_task_id = f.source_task_id[1]} ELSE evs

where_source_run_id(evs, f) ==
    IF TruthyStr(f.source_run_id)
    THEN {e \in evs : e.source_run_id = f.source_run_id[1]} ELSE evs

\* Mutant: the filter is applied whenever a value is supplied (is not None).
where_source_map_index_not_none(evs, f) ==
    IF f.source_map_index # None
    THEN {e \in evs : e.source_map_index = f.source_map_index[1]} ELSE evs

where_source_map_index(evs, f) ==
    IF TruthyInt(f.source_map_index)
    THEN {e \in evs : e.source_map_index = f.source_map_index[1]} ELSE evs

event_query(evs, f) ==
    where_source_map_index(
        where_source_run_id(
            where_source_task_id(
                where_source_dag_id(where_dataset_id(evs, f), f), f), f), f)

\* get_query_count(query, session=session)
get_query_count(rows) == Cardinality(rows)

\* The row query of get_dataset_events: filter, order, offset, limit; the
\* pages it can return.
event_pages(evs, args) ==
    {offset_limit(o, args.offset, args.limit) :
        o \in OrderBy(event_query(evs, args.filters),
                      apply_sorting(args.order_by, event_allowed_attrs))}

\* get_dataset: one select with both relationships joined.
get_dataset_response(ds, uri) ==
    LET found == select_by_uri(ds, uri)
    IN IF found = {}
       THEN [op |-> "get_dataset", uri |-> uri, status |-> "NotFound",
             queries |-> <<"select">>]
       ELSE [op |-> "get_dataset", uri |-> uri, status |-> "OK",
             queries |-> <<"select">>,
             body |-> dataset_schema_dump(CHOOSE d \in found : TRUE)]

\* ----------------------------------------------------------------- inputs

RequestUris == {DatasetUri(i) : i \in DatasetIds} \cup {<<"_">>}

Limits == 1..MaxLimit

Offsets == 0..MaxOffset

UriPatterns ==
    {None, Some(<<>>), Some(<<"d", "s">>), Some(<<"2">>), Some(<<"_">>)}

DatasetOrderBys ==
    {<<"id">>, <<"-", "id">>, <<"uri">>, <<"created_at">>,
     <<"-", "created_at">>, <<"nonexistent_field">>}

EventOrderBys ==
    {<<"timestamp">>, <<"-", "timestamp">>, <<"source_map_index">>,
     <<"nonexistent_field">>}

AllFilters ==
    [dataset_id : {None, Some(0), Some(1)},
     source_dag_id : {None, Some(<<>>), Some(<<"d">>)},
     source_task_id : {None, Some(<<>>), Some(<<"s">>)},
     source_run_id : {None, Some(<<>>), Some(<<"1">>)},
     source_map_index : {None, Some(0), Some(1), Some(-1)}]

NoFilter ==
    [dataset_id |-> None, source_dag_id |-> None, source_task_id |-> None,
     source_run_id |-> None, source_map_index |-> None]

\* Every get_datasets request within the bounds.
DatasetCalls ==
    [limit : Limits, offset : Offsets, uri_pattern : UriPatterns,
     order_by : DatasetOrderBys]

\* The get_datasets requests issued beside the delete requests.
FirstPageCalls ==
    [limit : {1}, offset : {0}, uri_pattern : {None},
     order_by : {<<"id">>, <<"nonexistent_field">>}]

\* Every get_dataset_events request within the bounds with filters from F.
EventCalls(F) ==
    [limit : Limits, offset : Offsets, order_by : EventOrderBys, filters : F]

\* The get_dataset_events requests issued beside the delete requests.
FirstEventCalls ==
    [limit : {1}, offset : {0},
     order_by : {<<"timestamp">>, <<"nonexistent_field">>},
     filters : {NoFilter}]

\* ------------------------------------------------------- delete_dataset

\* session.scalar(select(DatasetModel).where(DatasetModel.uri == uri))
delete_select(s) ==
    /\ pc[s] = "idle"
    /\ \E uri \in RequestUris :
          LET found == select_by_uri(datasets, uri)
          IN IF found = {}
             THEN /\ sess' = [sess EXCEPT ![s] =
                        [op |-> "delete_dataset", uri |-> uri,
                         status |-> "NotFound"]]
                  /\ pc' = [pc EXCEPT ![s] = "done"]
             ELSE /\ sess' = [sess EXCEPT ![s] =
                        [op |-> "delete_dataset", uri |-> uri,
                         id |-> (CHOOSE d \in found : TRUE).id]]
                  /\ pc' = [pc EXCEPT ![s] = "guard_dags"]
    /\ UNCHANGED <<datasets, events>>

\* if dataset.consuming_dags ...: the relationship is loaded when read.
delete_guard_dags(s) ==
    /\ pc[s] = "guard_dags"
    /\ IF lazyload_consuming_dags(datasets, sess[s].id) # {}
       THEN /\ sess' = [sess EXCEPT ![s] =
                  [op |-> "delete_dataset", uri |-> sess[s].uri,
                   status |-> "Conflict"]]
            /\ pc' = [pc EXCEPT ![s] = "done"]
       ELSE /\ pc' = [pc EXCEPT ![s] = "guard_tasks"]
            /\ UNCHANGED sess
    /\ UNCHANGED <<datasets, events>>

\* ... or dataset.producing_tasks: read only when consuming_dags was empty.
delete_guard_tasks(s) ==
    /\ pc[s] = "guard_tasks"
    /\ IF lazyload_producing_tasks(datasets, sess[s].id) # {}
       THEN /\ sess' = [sess EXCEPT ![s] =
                  [op |-> "delete_dataset", uri |-> sess[s].uri,
                   status |-> "Conflict"]]
            /\ pc' = [pc EXCEPT ![s] = "done"]
       ELSE /\ pc' = [pc EXCEPT ![s] = "flush"]
            /\ UNCHANGED sess
    /\ UNCHANGED <<datasets, events>>

\* session.delete(dataset); return NoContent: the DELETE runs when the
\* session commits, whatever has been committed to the row since the guard.
delete_flush(s) ==
    /\ pc[s] = "flush"
    /\ datasets' = session_delete(datasets, sess[s].id)
    /\ sess' = [sess EXCEPT ![s] =
           [op |-> "delete_dataset", uri |-> sess[s].uri,
            status |-> "NoContent"]]
    /\ pc' = [pc EXCEPT ![s] = "done"]
    /\ UNCHANGED events

\* ---------------------------------------------------------- get_dataset

get_dataset(s) ==
    /\ pc[s] = "idle"
    /\ \E uri \in RequestUris :
          sess' = [sess EXCEPT ![s] = get_dataset_response(datasets, uri)]
    /\ pc' = [pc EXCEPT ![s] = "done"]
    /\ UNCHANGED <<datasets, events>>

\* --------------------------------------------------------- get_datasets

\* The count query (line 105), then the sort field is validated.
get_datasets_count(s, Calls) ==
    /\ pc[s] = "idle"
    /\ \E args \in Calls :
          LET total_entries == count_datasets(datasets)
          IN IF ~apply_sorting(args.order_by, dataset_allowed_attrs).ok
             THEN /\ sess' = [sess EXCEPT ![s] =
                        [op |-> "get_datasets", args |-> args,
                         status |-> "BadRequest", queries |-> <<"count">>]]
                  /\ pc' = [pc EXCEPT ![s] = "done"]
             ELSE /\ sess' = [sess EXCEPT ![s] =
                        [op |-> "get_datasets", args |-> args,
                         queries |-> <<"count">>,
                         total_entries |-> total_entries]]
                  /\ pc' = [pc EXCEPT ![s] = "ds_rows"]
    /\ UNCHANGED <<datasets, events>>

\* The row query (lines 110-114).
get_datasets_rows(s) ==
    /\ pc[s] = "ds_rows"
    /\ \E page \in dataset_pages(datasets, sess[s].args) :
       LET rows == [i \in 1..Len(page) |-> dataset_columns(page[i])]
       IN IF rows = <<>>
          THEN /\ sess' = [sess EXCEPT ![s] =
                     [op |-> "get_datasets", args |-> sess[s].args,
                      status |-> "OK",
                      queries |-> sess[s].queries \o <<"select">>,
                      datasets |-> rows,
                      total_entries |-> sess[s].total_entries]]
               /\ pc' = [pc EXCEPT ![s] = "done"]
          ELSE /\ sess' = [sess EXCEPT ![s] =
                     [op |-> "get_datasets", args |-> sess[s].args,
                      queries |-> sess[s].queries \o <<"select">>,
                      datasets |-> rows,
                      total_entries |-> sess[s].total_entries]]
               /\ pc' = [pc EXCEPT ![s] = "ds_dags"]
    /\ UNCHANGED <<datasets, events>>

\* subqueryload(DatasetModel.consuming_dags)
get_datasets_dags(s) ==
    /\ pc[s] = "ds_dags"
    /\ \E page \in dataset_pages(datasets, sess[s].args) :
       sess' = [sess EXCEPT ![s] =
           [op |-> "get_datasets", args |-> sess[s].args,
            queries |-> sess[s].queries \o <<"subqueryload">>,
            datasets |->
                [i \in 1..Len(sess[s].datasets) |->
                    [sess[s].datasets[i] EXCEPT !.consuming_dags =
                        UNION {d.consuming_dags :
                            d \in subqueryload(page,
                                               sess[s].datasets[i].id)}]],
            total_entries |-> sess[s].total_entries]]
    /\ pc' = [pc EXCEPT ![s] = "ds_tasks"]
    /\ UNCHANGED <<datasets, events>>

\* subqueryload(DatasetModel.producing_tasks), then the response.
get_datasets_tasks(s) ==
    /\ pc[s] = "ds_tasks"
    /\ \E page \in dataset_pages(datasets, sess[s].args) :
       sess' = [sess EXCEPT ![s] =
           [op |-> "get_datasets", args |-> sess[s].args, status |-> "OK",
            queries |-> sess[s].queries \o <<"subqueryload">>,
            datasets |->
                [i \in 1..Len(sess[s].datasets) |->
                    [sess[s].datasets[i] EXCEPT !.producing_tasks =
                        UNION {d.producing_tasks :
                            d \in subqueryload(page,
                                               sess[s].datasets[i].id)}]],
            total_entries |-> sess[s].total_entries]]
    /\ pc' = [pc EXCEPT ![s] = "done"]
    /\ UNCHANGED <<datasets, events>>

\* --------------------------------------------------- get_dataset_events

\* The filters, then get_query_count (line 151), then the sort field is
\* validated.
get_dataset_events_count(s, Calls) ==
    /\ pc[s] = "idle"
    /\ \E args \in Calls :
          LET total_entries ==
                  get_query_count(event_query(events, args.filters))
          IN IF ~apply_sorting(args.order_by, event_allowed_attrs).ok
             THEN /\ sess' = [sess EXCEPT ![s] =
                        [op |-> "get_dataset_events", args |-> args,
                         status |-> "BadRequest", queries |-> <<"count">>]]
                  /\ pc' = [pc EXCEPT ![s] = "done"]
             ELSE /\ sess' = [sess EXCEPT ![s] =
                        [op |-> "get_dataset_events", args |-> args,
                         queries |-> <<"count">>,
                         total_entries |-> total_entries]]
                  /\ pc' = [pc EXCEPT ![s] = "ev_rows"]
    /\ UNCHANGED <<datasets, events>>

\* The row query (line 153).
get_dataset_events_rows(s) ==
    /\ pc[s] = "ev_rows"
    /\ \E rows \in event_pages(events, sess[s].args) :
          IF rows = <<>>
          THEN /\ sess' = [sess EXCEPT ![s] =
                     [op |-> "get_dataset_events", args |-> sess[s].args,
                      status |-> "OK",
                      queries |-> sess[s].queries \o <<"select">>,
                      dataset_events |-> rows,
                      total_entries |-> sess[s].total_entries]]
               /\ pc' = [pc EXCEPT ![s] = "done"]
          ELSE /\ sess' = [sess EXCEPT ![s] =
                     [op |-> "get_dataset_events", args |-> sess[s].args,
                      queries |-> sess[s].queries \o <<"select">>,
                      dataset_events |-> rows,
                      total_entries |-> sess[s].total_entries]]
               /\ pc' = [pc EXCEPT ![s] = "ev_dagruns"]
    /\ UNCHANGED <<datasets, events>>

\* subqueryload(DatasetEvent.created_dagruns), then the response.  No dag
\* run is created by anything modelled here, so the rows keep the empty
\* created_dagruns they were read with.
get_dataset_events_dagruns(s) ==
    /\ pc[s] = "ev_dagruns"
    /\ sess' = [sess EXCEPT ![s] =
           [op |-> "get_dataset_events", args |-> sess[s].args,
            status |-> "OK",
            queries |-> sess[s].queries \o <<"subqueryload">>,
            dataset_events |-> sess[s].dataset_events,
            total_entries |-> sess[s].total_entries]]
    /\ pc' = [pc EXCEPT ![s] = "done"]
    /\ UNCHANGED <<datasets, events>>

\* ------------------------------------------------------------ environment

\* The response is returned and the request's session is released.
Return(s) ==
    /\ pc[s] = "done"
    /\ pc' = [pc EXCEPT ![s] = "idle"]
    /\ sess' = [sess EXCEPT ![s] = NoSess]
    /\ UNCHANGED <<datasets, events>>

\* Another transaction registers a consuming DAG for an existing dataset.
add_consuming_dag ==
    /\ \E d \in datasets, dag \in DagRefs :
          /\ dag \notin d.consuming_dags
          /\ datasets' = (datasets \ {d}) \cup
                {[d EXCEPT !.consuming_dags = @ \cup {dag}]}
    /\ UNCHANGED <<events, pc, sess>>

\* Another transaction registers a producing task for an existing dataset.
add_producing_task ==
    /\ \E d \in datasets, task \in TaskRefs :
          /\ task \notin d.producing_tasks
          /\ datasets' = (datasets \ {d}) \cup
                {[d EXCEPT !.producing_tasks = @ \cup {task}]}
    /\ UNCHANGED <<events, pc, sess>>

\* The producing path appends the next event to the log.
append_event ==
    /\ Cardinality(events) < MaxEvents
    /\ events' = EventLog(Cardinality(events) + 1)
    /\ UNCHANGED <<datasets, pc, sess>>

\* --------------------------------------------------------- specifications

\* Deletes and gets of two sessions against the reference writers, with the
\* first page of each list read beside them.
Init ==
    /\ datasets \in DatasetStores
    /\ \E n \in 0..MaxEvents : events = EventLog(n)
    /\ pc = [s \in Sessions |-> "idle"]
    /\ sess = [s \in Sessions |-> NoSess]

Next ==
    \/ \E s \in Sessions : delete_select(s)
    \/ \E s \in Sessions : delete_guard_dags(s)
    \/ \E s \in Sessions : delete_guard_tasks(s)
    \/ \E s \in Sessions : delete_flush(s)
    \/ \E s \in Sessions : get_dataset(s)
    \/ get_datasets_count(Reader, FirstPageCalls)
    \/ get_datasets_rows(Reader)
    \/ get_datasets_dags(Reader)
    \/ get_datasets_tasks(Reader)
    \/ get_dataset_events_count(Reader, FirstEventCalls)
    \/ get_dataset_events_rows(Reader)
    \/ get_dataset_events_dagruns(Reader)
    \/ add_consuming_dag
    \/ add_producing_task
    \/ append_event
    \/ \E s \in Sessions : Return(s)

Spec == Init /\ [][Next]_vars

\* Every list request of one session while the other session deletes.
InitList ==
    /\ \E ids \in SUBSET DatasetIds :
          datasets = {DatasetRow(i, {}, {}) : i \in ids}
    /\ events = EventLog(MaxEvents)
    /\ pc = [s \in Sessions |-> "idle"]
    /\ sess = [s \in Sessions |-> NoSess]

NextList ==
    \/ get_datasets_count(Reader, DatasetCalls)
    \/ get_datasets_rows(Reader)
    \/ get_datasets_dags(Reader)
    \/ get_datasets_tasks(Reader)
    \/ get_dataset_events_count(Reader, EventCalls({NoFilter}))
    \/ get_dataset_events_rows(Reader)
    \/ get_dataset_events_dagruns(Reader)
    \/ \E s \in Sessions \ {Reader} : delete_select(s)
    \/ \E s \in Sessions \ {Reader} : delete_guard_dags(s)
    \/ \E s \in Sessions \ {Reader} : delete_guard_tasks(s)
    \/ \E s \in Sessions \ {Reader} : delete_flush(s)
    \/ \E s \in Sessions : Return(s)

SpecList == InitList /\ [][NextList]_vars

\* Every filter combination of get_dataset_events while the log grows.
InitEvents ==
    /\ datasets = {DatasetRow(i, {}, {}) : i \in DatasetIds}
    /\ \E n \in 0..MaxEvents : events = EventLog(n)
    /\ pc = [s \in Sessions |-> "idle"]
    /\ sess = [s \in Sessions |-> NoSess]

NextEvents ==
    \/ get_dataset_events_count(Reader, EventCalls(AllFilters))
    \/ get_dataset_events_rows(Reader)
    \/ get_dataset_events_dagruns(Reader)
    \/ append_event
    \/ Return(Reader)

SpecEvents == InitEvents /\ [][NextEvents]_vars

\* ----------------------------------------------------------------- claims

\* Session s takes a step of its request from position p.
Steps(s, p) == pc[s] = p /\ pc'[s] # p

\* Session s answers in this step.
Answers(s) == pc[s] # "done" /\ pc'[s] = "done"

IsDelete(r) == r.op = "delete_dataset"

IsList(r) == r.op \in {"get_datasets", "get_dataset_events"}

\* The rows of the store with key id.
RowsWithId(id) == {d \in datasets : d.id = id}

\* C1: a delete whose guard finds a consuming DAG or a producing task on the
\* dataset answers Conflict and leaves the store as it was, so get_dataset on
\* that uri answers what it answered before.
C1_ReferencedDeleteIsConflict ==
    [][\A s \in Sessions :
         LET Blocked ==
               \/ /\ Steps(s, "guard_dags")
                  /\ \E d \in RowsWithId(sess[s].id) : d.consuming_dags # {}
               \/ /\ Steps(s, "guard_tasks")
                  /\ \E d \in RowsWithId(sess[s].id) : d.producing_tasks # {}
         IN Blocked
            => /\ pc'[s] = "done"
               /\ sess'[s].status = "Conflict"
               /\ datasets' = datasets
               /\ get_dataset_response(datasets', sess[s].uri)
                    = get_dataset_response(datasets, sess[s].uri)
               /\ get_dataset_response(datasets', sess[s].uri).status = "OK"]_vars

\* A delete answered Conflict for a dataset referenced by a producing task only.
C1_Witness ==
    \E s \in Sessions :
        /\ pc[s] = "done"
        /\ IsDelete(sess[s])
        /\ sess[s].status = "Conflict"
        /\ \E d \in datasets :
             /\ d.uri = sess[s].uri
             /\ d.consuming_dags = {}
             /\ d.producing_tasks # {}

\* C2: a dataset row is never removed while it has a consuming DAG or a
\* producing task at the moment of removal, whatever a concurrent writer does.
C2_ReferencedNeverDeleted ==
    [][\A d \in datasets :
         (\A e \in datasets' : e.id # d.id)
         => (d.consuming_dags = {} /\ d.producing_tasks = {})]_vars

\* The unfiltered list of the store ds in id order, every row on one page.
ListAll(ds) ==
    CHOOSE page \in
        dataset_pages(ds, [limit |-> Cardinality(DatasetIds), offset |-> 0,
                           uri_pattern |-> None, order_by |-> <<"id">>]) : TRUE

\* C3: a delete of an existing dataset whose guard finds no consuming DAG and
\* no producing task goes on to the delete and answers NoContent; afterwards
\* get_dataset on its uri answers NotFound and the list holds every other
\* dataset and not that one, total_entries counting the rows that remain.
C3_UnreferencedDeleteSucceeds ==
    [][\A s \in Sessions :
         /\ (Steps(s, "guard_dags")
               /\ \A d \in RowsWithId(sess[s].id) : d.consuming_dags = {})
            => pc'[s] = "guard_tasks"
         /\ (Steps(s, "guard_tasks")
               /\ \A d \in RowsWithId(sess[s].id) : d.producing_tasks = {})
            => pc'[s] = "flush"
         /\ Steps(s, "flush")
            => LET uri == sess[s].uri
                   Other(x) == x.uri # uri
               IN /\ pc'[s] = "done"
                  /\ sess'[s].status = "NoContent"
                  /\ get_dataset_response(datasets', uri).status = "NotFound"
                  /\ ListAll(datasets') = SelectSeq(ListAll(datasets), Other)
                  /\ count_datasets(datasets')
                       = Cardinality({d \in datasets : d.uri # uri})]_vars

\* ds1 (unreferenced) was deleted and the list now holds ds2 (referenced) alone.
C3_Witness ==
    \E s \in Sessions :
        /\ pc[s] = "done"
        /\ IsDelete(sess[s])
        /\ sess[s].status = "NoContent"
        /\ sess[s].uri = DatasetUri(1)
        /\ count_datasets(datasets) = 1
        /\ Len(ListAll(datasets)) = 1
        /\ ListAll(datasets)[1].uri = DatasetUri(2)
        /\ ListAll(datasets)[1].consuming_dags # {}

\* C4: total_entries of get_datasets is the number of datasets the uri_pattern
\* filter selects, whatever limit and offset are.
C4_TotalEntriesIsFilteredCount ==
    [][(pc[Reader] = "idle" /\ pc'[Reader] = "ds_rows")
       => sess'[Reader].total_entries
            = Cardinality(where_uri_pattern(datasets,
                              sess'[Reader].args.uri_pattern))]_vars

\* The field an order_by token names, its direction markers removed.
RequestedField(order_by) == order_by[Len(order_by)]

AllowList(op) ==
    IF op = "get_datasets"
    THEN {"id", "uri", "created_at", "updated_at"}
    ELSE {"source_dag_id", "source_task_id", "source_run_id",
          "source_map_index", "timestamp"}

\* C5: a list call whose order_by names a field outside the allow-list fails
\* as a bad request and has issued no query, not even the count query.
C5_InvalidSortIssuesNoQuery ==
    \A s \in Sessions :
        (IsList(sess[s])
           /\ RequestedField(sess[s].args.order_by) \notin AllowList(sess[s].op))
        => (pc[s] = "done" /\ sess[s].status = "BadRequest"
              /\ sess[s].queries = <<>>)

\* The ordering a list request asks for.
Requested(args) ==
    [field |-> RequestedField(args.order_by), desc |-> args.order_by[1] = "-"]

\* The sort key of q is strictly before that of r in the requested order.
KeyBefore(q, r, o) ==
    LET kq == SortKey(q, o.field)
        kr == SortKey(r, o.field)
    IN kq # kr /\ (IF o.desc THEN LexLess(kr, kq) ELSE LexLess(kq, kr))

\* q precedes r in the total order of the specification: by the sort key in
\* the requested direction, rows with equal keys by id.
Precedes(q, r, o) ==
    \/ KeyBefore(q, r, o)
    \/ SortKey(q, o.field) = SortKey(r, o.field) /\ q.id < r.id

Ids(rows) == [i \in 1..Len(rows) |-> rows[i].id]

\* rows can stand at positions offset+1 .. offset+Len(rows) of a sequence
\* that holds every row of matching once, sorted by the requested key: they
\* are distinct rows of matching, no row is before one with an earlier key,
\* every row with an earlier key than rows[i] fits before position offset+i
\* and too few rows have a key as early as that of rows[i] to push it later.
SliceOfSorted(rows, matching, args) ==
    /\ \A i \in 1..Len(rows) :
          /\ \E m \in matching : m.id = rows[i].id
          /\ \A j \in 1..Len(rows) : i # j => rows[i].id # rows[j].id
          /\ \A j \in 1..Len(rows) :
                i < j => ~KeyBefore(rows[j], rows[i], Requested(args))
          /\ Cardinality({q \in matching :
                 KeyBefore(q, rows[i], Requested(args))})
               <= args.offset + i - 1
          /\ Cardinality({q \in matching :
                 ~KeyBefore(rows[i], q, Requested(args))})
               >= args.offset + i
    /\ Len(rows) = IF Cardinality(matching) <= args.offset THEN 0
                   ELSE Min(args.limit, Cardinality(matching) - args.offset)

\* C6: the row query of get_datasets returns exactly the rows at positions
\* offset+1 .. offset+limit of the filtered datasets sorted by the requested
\* order (ordering before offset, offset before limit), so their number is
\* max(0, min(limit, matching - offset)) and at most limit; the response
\* holds those rows in that order.
C6_PageIsSliceOfSortedFiltered ==
    [][/\ Steps(Reader, "ds_rows")
          => LET args == sess[Reader].args
                 items == sess'[Reader].datasets
                 matching == where_uri_pattern(datasets, args.uri_pattern)
             IN /\ Len(items) <= args.limit
                /\ SliceOfSorted(items, matching, args)
                /\ \A i \in 1..Len(items) :
                      \E m \in matching :
                         m.id = items[i].id /\ m.uri = items[i].uri
       /\ (Steps(Reader, "ds_dags") \/ Steps(Reader, "ds_tasks"))
          => Ids(sess'[Reader].datasets) = Ids(sess[Reader].datasets)]_vars

\* A filtered page that starts after the first match and ends before the last.
C6_Witness ==
    /\ pc[Reader] = "done"
    /\ sess[Reader].op = "get_datasets"
    /\ sess[Reader].status = "OK"
    /\ sess[Reader].args.uri_pattern = Some(<<"_">>)
    /\ sess[Reader].args.order_by = <<"-", "id">>
    /\ sess[Reader].args.offset = 1
    /\ sess[Reader].args.limit = 1
    /\ Cardinality(datasets) = 3
    /\ Len(sess[Reader].datasets) = 1
    /\ sess[Reader].datasets[1].id = 2

\* The rows a list request's filters select from the current store.
Matching(op, args) ==
    IF op = "get_datasets" THEN where_uri_pattern(datasets, args.uri_pattern)
    ELSE event_query(events, args.filters)

\* C7: for a fixed store, filter and order_by the page of a list is
\* determined, also when rows share the value of the sort key: the rows come
\* in one total order, by the sort key and for equal keys by id, so the page
\* at an offset holds the rows at its positions in that order and the pages
\* concatenated in offset order hold every matching row exactly once.
C7_PagesFollowTotalOrder ==
    [][(Steps(Reader, "ds_rows") \/ Steps(Reader, "ev_rows"))
       => LET op == sess[Reader].op
              args == sess[Reader].args
              items == IF op = "get_datasets" THEN sess'[Reader].datasets
                       ELSE sess'[Reader].dataset_events
          IN \A i \in 1..Len(items) :
                Cardinality({q \in Matching(op, args) :
                    Precedes(q, items[i], Requested(args))})
                  = args.offset + i - 1]_vars

\* A filter value that is supplied and not falsy (0 or the empty string).
AppliedInt(o) == Len(o) = 1 /\ o[1] # 0

AppliedStr(o) == Len(o) = 1 /\ Len(o[1]) > 0

\* The events of the current log that satisfy every applied equality
\* predicate of f.
Satisfying(f) ==
    {e \in events :
        /\ AppliedInt(f.dataset_id) => e.dataset_id = f.dataset_id[1]
        /\ AppliedStr(f.source_dag_id) => e.source_dag_id = f.source_dag_id[1]
        /\ AppliedStr(f.source_task_id) => e.source_task_id = f.source_task_id[1]
        /\ AppliedStr(f.source_run_id) => e.source_run_id = f.source_run_id[1]
        /\ AppliedInt(f.source_map_index)
             => e.source_map_index = f.source_map_index[1]}

\* f with every falsy value replaced by an absent one.
Absent(f) ==
    [dataset_id |-> IF AppliedInt(f.dataset_id) THEN f.dataset_id ELSE None,
     source_dag_id |->
         IF AppliedStr(f.source_dag_id) THEN f.source_dag_id ELSE None,
     source_task_id |->
         IF AppliedStr(f.source_task_id) THEN f.source_task_id ELSE None,
     source_run_id |->
         IF AppliedStr(f.source_run_id) THEN f.source_run_id ELSE None,
     source_map_index |->
         IF AppliedInt(f.source_map_index) THEN f.source_map_index ELSE None]

\* C8: get_dataset_events applies each filter as an equality predicate when
\* its value is supplied and truthy and omits it otherwise (0 and "" select
\* what an absent parameter selects); the count query and the row query each
\* range over exactly the events that satisfy the applied predicates when the
\* query runs.
C8_EventFiltersTruthy ==
    [][/\ (pc[Reader] = "idle" /\ pc'[Reader] = "ev_rows")
          => LET f == sess'[Reader].args.filters
             IN /\ sess'[Reader].total_entries = Cardinality(Satisfying(f))
                /\ event_query(events, f) = event_query(events, Absent(f))
       /\ Steps(Reader, "ev_rows")
          => LET args == sess[Reader].args
                 want == Satisfying(args.filters)
                 rows == sess'[Reader].dataset_events
             IN /\ \A i \in 1..Len(rows) : rows[i] \in want
                /\ SliceOfSorted(rows, want, args)
                /\ rows \in event_pages(events,
                               [args EXCEPT !.filters = Absent(args.filters)])
       /\ Steps(Reader, "ev_dagruns")
          => /\ sess'[Reader].dataset_events = sess[Reader].dataset_events
             /\ sess'[Reader].total_entries = sess[Reader].total_entries]_vars

\* source_map_index = 0 and dataset_id = 1 were passed: the rows are those of
\* dataset 1 at every map index, one of them with a map index other than 0.
C8_Witness ==
    /\ pc[Reader] = "done"
    /\ sess[Reader].op = "get_dataset_events"
    /\ sess[Reader].status = "OK"
    /\ sess[Reader].args.filters.source_map_index = Some(0)
    /\ sess[Reader].args.filters.dataset_id = Some(1)
    /\ sess[Reader].args.filters.source_dag_id = Some(<<>>)
    /\ sess[Reader].total_entries = 2
    /\ \E i \in 1..Len(sess[Reader].dataset_events) :
         sess[Reader].dataset_events[i].source_map_index # 0

\* C9: for a uri no dataset has, get_dataset and delete_dataset answer
\* NotFound and change nothing; in delete_dataset the lookup precedes the
\* guard and the guard the delete, so a delete that answers NotFound or
\* Conflict has removed no row.
C9_MissingUriIsNotFound ==
    [][\A s \in Sessions :
         /\ (Steps(s, "idle")
               /\ sess'[s].op \in {"get_dataset", "delete_dataset"}
               /\ \A d \in datasets : d.uri # sess'[s].uri)
            => /\ pc'[s] = "done"
               /\ sess'[s].status = "NotFound"
               /\ datasets' = datasets
               /\ events' = events
         /\ (Steps(s, "idle") /\ IsDelete(sess'[s])
               /\ \E d \in datasets : d.uri = sess'[s].uri)
            => pc'[s] = "guard_dags"
         /\ (Answers(s) /\ IsDelete(sess'[s])
               /\ sess'[s].status # "NoContent")
            => /\ sess'[s].status \in {"NotFound", "Conflict"}
               /\ pc[s] \in {"idle", "guard_dags", "guard_tasks"}
               /\ datasets' = datasets
         /\ (pc[s] \in {"idle", "guard_dags", "guard_tasks"}
               /\ pc'[s] # pc[s] /\ IsDelete(sess'[s]))
            => datasets' = datasets]_vars

\* A delete of a uri that no dataset of a nonempty store has.
C9_Witness ==
    \E s \in Sessions :
        /\ pc[s] = "done"
        /\ IsDelete(sess[s])
        /\ sess[s].status = "NotFound"
        /\ sess[s].uri = <<"_">>
        /\ \E d \in datasets : d.uri = <<"x">>

\* C10: no step of get_dataset, get_datasets or get_dataset_events changes
\* the datasets, their references or the events; a successful delete_dataset
\* removes the row with that uri and leaves every other row as it was.
C10_OnlyDeleteMutates ==
    [][\A s \in Sessions :
         /\ (pc'[s] # pc[s]
               /\ sess'[s].op \in {"get_dataset", "get_datasets",
                                   "get_dataset_events"})
            => (datasets' = datasets /\ events' = events)
         /\ (Answers(s) /\ IsDelete(sess'[s])
               /\ sess'[s].status = "NoContent")
            => /\ events' = events
               /\ datasets' = {d \in datasets : d.uri # sess'[s].uri}]_vars

\* A successful delete in a store that holds another unreferenced dataset
\* and a referenced one.
C10_Witness ==
    \E s \in Sessions :
        /\ pc[s] = "done"
        /\ IsDelete(sess[s])
        /\ sess[s].status = "NoContent"
        /\ \E d \in datasets : d.consuming_dags = {} /\ d.producing_tasks = {}
        /\ \E d \in datasets : d.consuming_dags # {} /\ d.producing_tasks # {}

TypeOK ==
    /\ datasets \in DatasetStores
    /\ events \subseteq EventLog(MaxEvents)
    /\ \A s \in Sessions :
          pc[s] \in {"idle", "guard_dags", "guard_tasks", "flush", "ds_rows",
                     "ds_dags", "ds_tasks", "ev_rows", "ev_dagruns", "done"}

====
